---- MODULE Spec2Model ----
(***************************************************************************)
(* PyRvDbg: the GDB Remote Serial Protocol client of src/main.py           *)
(* (class RSPClient) together with the observer it is wired to             *)
(* (class UIInterface).                                                    *)
(*                                                                         *)
(* The client is single threaded.  Its control state is a call stack of    *)
(* frames (connect, rspCall, _rspConsumePackets, poll, onPaused); a step   *)
(* of the model runs the top frame up to its next socket operation or      *)
(* call.  The remote target and the network are the environment: the       *)
(* target writes acknowledgment bytes and "$payload#cc" frames, possibly   *)
(* in two pieces, and may close the stream; a blocking receive that finds  *)
(* no byte may time out.                                                   *)
(*                                                                         *)
(* Bytes are their ASCII codes.  Python values that cross a call boundary  *)
(* are records [t, b]: None, True, False, or a bytes object.               *)
(***************************************************************************)
EXTENDS Integers, Sequences, FiniteSets, TLC

\* ------------------------------------------------------------------ bounds
MaxOps == 2        \* top-level operations the user issues
MaxUnsolicited == 1 \* frames the target emits unasked: stop, log or response
MaxCut == 1        \* short first segments of a frame the network may deliver

\* ------------------------------------------------------- program constants
Dollar == 36
Hash == 35
Plus == 43
CharT == 84
CharO == 79
RecvMax == 30000
NumRegs == 32
BitWidth == 32
Interrupt == 3

QStartNoAckMode == <<81, 83, 116, 97, 114, 116, 78, 111, 65, 99, 107, 77, 111, 100, 101>>
ExtendedMode == <<33>>
QueryTargetXml ==
  <<113, 88, 102, 101, 114, 58, 102, 101, 97, 116, 117, 114, 101, 115, 58, 114,
    101, 97, 100, 58, 116, 97, 114, 103, 101, 116, 46, 120, 109, 108, 58, 48,
    44, 57, 57, 57, 57>>
\* 'p%02x' % 32
GetOneRegPC == <<112, 50, 48>>
GetRegsCmd == <<103>>

\* ----------------------------------------------------------- Python values
\* at: for a packet taken from the stream, 1 when a notification frame that
\* arrived before it was dropped undispatched (0 otherwise); it is bookkeeping,
\* no part of the Python value
None == [t |-> "None", b |-> <<>>, at |-> 0]
PyTrue == [t |-> "True", b |-> <<>>, at |-> 0]
PyFalse == [t |-> "False", b |-> <<>>, at |-> 0]
BytesAt(s, j) == [t |-> "bytes", b |-> s, at |-> j]

\* --------------------------------------------------------- byte operations
\* the indices of c in s (t is s, computed once)
Positions(s, c) == UNION {{i \in 1..Len(t) : t[i] = c} : t \in {s}}

\* bytes.find(c): the 1-based index of the first c, 0 when there is none
Find(s, c) ==
  IF Positions(s, c) = {} THEN 0
  ELSE CHOOSE i \in Positions(s, c) : \A j \in Positions(s, c) : i <= j

\* the sum of s[lo..hi], by halves
RECURSIVE SumBytes(_, _, _)
SumBytes(s, lo, hi) ==
  IF lo > hi THEN 0
  ELSE IF lo = hi THEN s[lo]
  ELSE SumBytes(s, lo, (lo + hi) \div 2) + SumBytes(s, (lo + hi) \div 2 + 1, hi)

\* a checksum that would not be reduced to one byte
ChecksumPlain(data) == SumBytes(data, 1, Len(data))

\* checksum = 0; for b in data: checksum += b; checksum &= 0xFF
Checksum(data) == SumBytes(data, 1, Len(data)) % 256

HexDigit(d) == IF d < 10 THEN 48 + d ELSE 87 + d
\* b'%02x' % checksum
Hex2(n) == <<HexDigit(n \div 16), HexDigit(n % 16)>>

\* b'%x' % n: lowercase hex digits, no padding
RECURSIVE HexStr(_)
HexStr(n) == IF n < 16 THEN <<HexDigit(n)>> ELSE HexStr(n \div 16) \o <<HexDigit(n % 16)>>

\* _rspEscape and _rspUnescape return their argument (the escaping is a TODO)
RspEscape(data) == data
RspUnescape(data) == data

\* the four sendall calls of rspCall, concatenated
Encode(data) == <<Dollar>> \o data \o <<Hash>> \o Hex2(Checksum(data))

IsHexChar(c) == (c >= 48 /\ c <= 57) \/ (c >= 97 /\ c <= 102) \/ (c >= 65 /\ c <= 70)
\* binascii.unhexlify accepts an even number of hex digits
Unhexable(s) == \A t \in {s} : Len(t) % 2 = 0 /\ \A i \in 1..Len(t) : IsHexChar(t[i])

HexVal(c) == IF c <= 57 THEN c - 48 ELSE IF c >= 97 THEN c - 87 ELSE c - 55
\* binascii.unhexlify of an acceptable argument
Unhexlify(s) == [i \in 1..(Len(s) \div 2) |-> 16 * HexVal(s[2 * i - 1]) + HexVal(s[2 * i])]
\* binascii.hexlify
Hexlify(s) == [i \in 1..(2 * Len(s)) |->
                IF i % 2 = 1 THEN HexDigit(s[(i + 1) \div 2] \div 16)
                ELSE HexDigit(s[i \div 2] % 16)]

\* b'm%x,%x' % (addr, size), line 178
ReadCmd(addr, size) == <<109>> \o HexStr(addr) \o <<44>> \o HexStr(size)
\* _getTypeID, line 283
TypeID == [soft |-> 0, hard |-> 1, read |-> 2, write |-> 3, access |-> 4]
\* b'Z%x,%x,%x' % (type, addr, size) and b'z%x,%x,%x' % ..., lines 287 and 291
BpCmd(letter, type, addr, size) ==
  <<letter>> \o HexStr(TypeID[type]) \o <<44>> \o HexStr(addr) \o <<44>> \o HexStr(size)
\* b'vCont;c', line 242
GoCmd == <<118, 67, 111, 110, 116, 59, 99>>
\* b'reset halt', line 260
ResetHalt == <<114, 101, 115, 101, 116, 32, 104, 97, 108, 116>>
\* b'qRcmd,%s' % hexlify(cmd), line 255
MonitorCmd(cmd) == <<113, 82, 99, 109, 100, 44>> \o Hexlify(cmd)

\* len(parseRegs(hex)): one register per started group of bitWidth // 8 bytes
RegCount(hex) == ((Len(hex) \div 2) + (BitWidth \div 8) - 1) \div (BitWidth \div 8)


\* ------------------------------------------------ packets (lines 101-125)
\* if self._pendingData[-3] == ord('#'): IndexError below three bytes is
\* raised by the caller before this is asked
FrameComplete(pd) == pd[Len(pd) - 2] = Hash

\* one round of the parsing loop on a buffer that holds a '#':
\* pkt = pendingData[:pos]; pendingData = pendingData[pos+1:]
SplitRaw(pd) == SubSeq(pd, 1, Find(pd, Hash) - 1)
SplitRest(pd) == SubSeq(pd, Find(pd, Hash) + 1, Len(pd))
\* pos2 = pkt.find(b'$'); pkt = pkt[pos2+1:]
StripDollar(raw) == SubSeq(raw, Find(raw, Dollar) + 1, Len(raw))

\* "trap", "log" or "resp": the two notification tests of lines 112-121
Classify(pkt) ==
  IF Len(pkt) >= 3 /\ pkt[1] = CharT THEN "trap"
  ELSE IF Len(pkt) >= 3 /\ pkt[1] = CharO THEN "log"
  ELSE "resp"

\* a parsing loop that would keep the packet it already holds
NextRetFirst(ret, pkt) == IF ret.t = "bytes" THEN ret.b ELSE pkt

\* ret = pkt (line 124): the packet parsed last is the one kept; ret is the
\* value held so far
NextRet(ret, pkt) == pkt

\* a connect that would hand the observer the whole response
StripNothing(resp) == resp

\* xml = self.rspCall(...)[1:]
StripFirst(resp) == SubSeq(resp, 2, Len(resp))

\* --------------------------------------------------------- the environment
OkReply == <<79, 75>>
\* 32 registers of 32 bits, all zero, as 256 hex digits
RegsReply == [i \in 1..(2 * NumRegs * (BitWidth \div 8)) |-> 48]
StopFrame == <<CharT, 48, 53>>
LogFrame == <<CharO, 54, 102>>
\* what the target puts on the wire: "$payload#cc" with a correct checksum
OkFrame == Encode(OkReply)
ReplyFrames == {OkFrame, Encode(RegsReply)}
NotifFrames == {Encode(StopFrame), Encode(LogFrame)}
\* "$E01#00": a frame damaged on the way, its digits not the checksum (a6)
CorruptFrame == <<Dollar, 69, 48, 49, Hash, 48, 48>>
ExtraFrames == {OkFrame, CorruptFrame}
\* a payload the user passes to rspCall from the console
UserCmd == <<63>>

\* where the network may cut a frame of n bytes: the first segment has k bytes,
\* at most MaxCut of them, or all up to the '#', or all n (no cut)
CutPoints(n) == {k \in 1..n : k <= MaxCut \/ k = n - 2 \/ k = n}

\* ------------------------------------------------------------------- state
VARIABLES
  socket,        \* self._socket: "none", "open" or "closed"
  connected,     \* self._connected
  pendingData,   \* self._pendingData
  stack,         \* the call stack, innermost frame last
  retval,        \* the value the frame that returned last handed to its caller
  rcvBuf,        \* bytes that have arrived on the socket and are not yet read
  peerRest,      \* the rest of the frame the target is in the middle of sending
  peerOpen,      \* the target has not closed its end
  reqQ,          \* requests the target has received and not yet answered
  ackOwed,       \* '+' bytes the target has yet to send
  ackMode,       \* the target acknowledges each request with '+'
  notifSent,     \* unsolicited stop/log frames sent so far
  extraSent,     \* unsolicited response frames sent so far
  inFlight,      \* the frames sent whose '#' the client has not parsed yet, in
                 \* order: a notification's number, 0 for a response
  missed,        \* a notification frame was parsed and not dispatched
  lastNotif,     \* the number of the notification dispatched last
  disorder,      \* a notification was dispatched after a later one
  opsLeft,       \* top-level operations still to be issued
  opName,        \* the top-level operation running, or the last one
  result,        \* how the last top-level operation ended
  sentOp,        \* bytes written to the socket by the current operation
  ownSent,       \* those of them written outside any observer callback
  uiLog,         \* observer callbacks made during the current operation
  console,       \* lines printed during the current operation
  respBuf        \* _pendingData as the top-level rspCall first had it complete
                 \* for parsing while waiting for its response

peerVars == <<rcvBuf, peerRest, peerOpen, reqQ, ackOwed, ackMode, notifSent,
              extraSent, inFlight>>
clientVars == <<socket, connected, pendingData, stack, retval>>
ghostVars == <<missed, lastNotif, disorder, opsLeft, opName, result, sentOp,
               ownSent, uiLog, console, respBuf>>
vars == <<socket, connected, pendingData, stack, retval, rcvBuf, peerRest,
          peerOpen, reqQ, ackOwed, ackMode, notifSent, extraSent, inFlight,
          missed, lastNotif, disorder, opsLeft, opName, result, sentOp,
          ownSent, uiLog, console, respBuf>>

\* a stack frame: the function, where it is, its arguments and its local ret;
\* for one pass of _rspConsumePackets also the packets it took for responses
\* (seen) and those it printed as ignored (ign), in order
Fr(fn, pc, data, ack, resp) ==
  [fn |-> fn, pc |-> pc, data |-> data, ack |-> ack, resp |-> resp, ret |-> None,
   seen |-> <<>>, ign |-> <<>>]

NoResult == [kind |-> "none", val |-> None, exc |-> ""]
Returned(v) == [kind |-> "return", val |-> v, exc |-> ""]
Raised(e) == [kind |-> "raise", val |-> None, exc |-> e]

UiState(s, by) == [kind |-> s, xml |-> <<>>, by |-> by]
UiXml(x, by) == [kind |-> "xml", xml |-> x, by |-> by]
Line(tag, pkt) == [tag |-> tag, pkt |-> pkt]

Top == stack[Len(stack)]
Pop(stk) == SubSeq(stk, 1, Len(stk) - 1)
SetTop(stk, f) == [stk EXCEPT ![Len(stk)] = f]
Idle == stack = <<>>

\* __init__ (lines 27-31), before any operation
Init ==
  /\ socket = "none"
  /\ connected = FALSE
  /\ pendingData = <<>>
  /\ stack = <<>>
  /\ retval = None
  /\ rcvBuf = <<>>
  /\ peerRest = <<>>
  /\ peerOpen = FALSE
  /\ reqQ = <<>>
  /\ ackOwed = 0
  /\ ackMode = FALSE
  /\ notifSent = 0
  /\ extraSent = 0
  /\ inFlight = <<>>
  /\ missed = FALSE
  /\ lastNotif = 0
  /\ disorder = FALSE
  /\ opsLeft = MaxOps
  /\ opName = "none"
  /\ result = NoResult
  /\ sentOp = <<>>
  /\ ownSent = <<>>
  /\ uiLog = <<>>
  /\ console = <<>>
  /\ respBuf = <<>>


\* ------------------------------------------------- returning and raising
\* the frames of stk that catch an exception: rspCall inside its try block
\* (lines 153-174) and poll inside its own (lines 269-273)
Catches(f) ==
  \/ f.fn = "rspCall" /\ f.pc # "start"
  \/ f.fn = "poll" /\ f.pc # "start"

RECURSIVE HandlerIdx(_, _)
HandlerIdx(stk, i) ==
  IF i = 0 THEN 0 ELSE IF Catches(stk[i]) THEN i ELSE HandlerIdx(stk, i - 1)

\* the callee has been popped (stk is what is left) and hands v to its caller;
\* with no caller the top-level operation is over
Return(stk, v) ==
  IF stk = <<>>
  THEN /\ stack' = <<>>
       /\ retval' = None
       /\ result' = Returned(v)
  ELSE /\ stack' = stk
       /\ retval' = v
       /\ UNCHANGED result

\* an exception is raised with stk as the stack, ui as the observer log so far.
\* It unwinds to the innermost handler, which runs disconnect() (lines 58-62)
\* and falls off the end of rspCall (so returns None) or lets poll return True;
\* with no handler it leaves the top-level operation.
Throw(stk, exc, ui) ==
  LET h == HandlerIdx(stk, Len(stk)) IN
  IF h = 0
  THEN /\ stack' = <<>>
       /\ retval' = None
       /\ result' = Raised(exc)
       /\ uiLog' = ui
       /\ UNCHANGED <<connected, socket>>
  ELSE /\ connected' = FALSE
       /\ socket' = "closed"
       /\ uiLog' = Append(ui, UiState("None", stk[h].fn))
       /\ Return(SubSeq(stk, 1, h - 1), IF stk[h].fn = "poll" THEN PyTrue ELSE None)

\* the '#' delimiters in a buffer
HashCount(s) == Cardinality(Positions(s, Hash))

\* ------------------------------------------------- top-level operations
Begin(name) ==
  /\ Idle
  /\ opsLeft > 0
  /\ opsLeft' = opsLeft - 1
  /\ opName' = name
  /\ console' = <<>>
  /\ respBuf' = <<>>

StartOp(name) ==
  /\ Begin(name)
  /\ sentOp' = <<>>
  /\ ownSent' = <<>>

\* connect, lines 34-39: a new socket, connected to the target, which greets
\* with one acknowledgment byte it has yet to send
DoConnect ==
  /\ StartOp("connect")
  /\ socket' = "open"
  /\ stack' = <<Fr("connect", "handshake", <<>>, FALSE, FALSE)>>
  /\ result' = NoResult
  /\ uiLog' = <<>>
  /\ rcvBuf' = <<>>
  /\ peerRest' = <<>>
  /\ peerOpen' = TRUE
  /\ reqQ' = <<>>
  /\ ackOwed' = 1
  /\ ackMode' = TRUE
  /\ inFlight' = SubSeq(inFlight, 1, HashCount(pendingData))
  /\ UNCHANGED <<connected, pendingData, retval, notifSent, extraSent>>
  /\ UNCHANGED <<missed, lastNotif, disorder>>

\* rspCall(data, waitForResp=wr) typed at the console
DoRspCall(wr) ==
  /\ StartOp("rspCall")
  /\ stack' = <<Fr("rspCall", "start", UserCmd, FALSE, wr)>>
  /\ result' = NoResult
  /\ uiLog' = <<>>
  /\ UNCHANGED <<socket, connected, pendingData, retval, missed, lastNotif, disorder>>
  /\ UNCHANGED peerVars

\* select.select([self._socket], [], [], 0): readable when bytes wait or the
\* stream has ended
Readable == rcvBuf # <<>> \/ ~peerOpen

\* poll() fired by the timer of lines 507-510
DoPoll ==
  /\ StartOp("poll")
  /\ stack' = <<Fr("poll", "start", <<>>, FALSE, FALSE)>>
  /\ result' = NoResult
  /\ uiLog' = <<>>
  /\ UNCHANGED <<socket, connected, pendingData, retval, missed, lastNotif, disorder>>
  /\ UNCHANGED peerVars

\* poll, lines 267-270, up to the call of _rspConsumePackets
PollSelect ==
  /\ ~Idle
  /\ Top.fn = "poll" /\ Top.pc = "start"
  /\ UNCHANGED <<pendingData, missed, lastNotif, disorder, opsLeft, opName, sentOp, ownSent, console, respBuf>>
  /\ UNCHANGED peerVars
  /\ IF ~connected
     THEN /\ Return(Pop(stack), PyFalse)
          /\ UNCHANGED <<socket, connected, uiLog>>
     ELSE IF socket # "open"
     THEN Throw(SetTop(stack, [Top EXCEPT !.pc = "drained"]), "ValueError", uiLog)
     ELSE IF Readable
     THEN /\ stack' = SetTop(stack, [Top EXCEPT !.pc = "drained"])
                      \o <<Fr("consume", "read", <<>>, FALSE, FALSE)>>
          /\ UNCHANGED <<socket, connected, retval, result, uiLog>>
     ELSE /\ Return(Pop(stack), PyTrue)
          /\ UNCHANGED <<socket, connected, uiLog>>

\* a pause that would frame the interrupt like a request
PauseFramed == Encode(<<Interrupt>>)

\* what pause writes: b'\x03' (line 251)
PauseBytes == <<Interrupt>>

\* pause, lines 250-252: one sendall and return True, with no try block; on a
\* stream the target has closed the sendall may still succeed or may fail
DoPause ==
  /\ Begin("pause")
  /\ uiLog' = <<>>
  /\ UNCHANGED <<socket, connected, pendingData, stack, retval, missed, lastNotif,
                 disorder>>
  /\ UNCHANGED peerVars
  /\ IF socket # "open"
     THEN /\ result' = Raised(IF socket = "none" THEN "AttributeError" ELSE "OSError")
          /\ sentOp' = <<>>
          /\ ownSent' = <<>>
     ELSE \/ /\ result' = Returned(PyTrue)
             /\ sentOp' = PauseBytes
             /\ ownSent' = PauseBytes
          \/ /\ ~peerOpen
             /\ result' = Raised("BrokenPipe")
             /\ sentOp' = <<>>
             /\ ownSent' = <<>>

\* disconnect, lines 58-62, called by the user
DoDisconnect ==
  /\ StartOp("disconnect")
  /\ connected' = FALSE
  /\ UNCHANGED <<pendingData, stack, retval, missed, lastNotif, disorder>>
  /\ UNCHANGED peerVars
  /\ IF socket = "none"
     THEN /\ result' = Raised("AttributeError")
          /\ uiLog' = <<>>
          /\ UNCHANGED socket
     ELSE /\ socket' = "closed"
          /\ uiLog' = <<UiState("None", "disconnect")>>
          /\ result' = Returned(PyTrue)


\* ------------------------------------------------------------- the observer
\* UIInterface.onStateUpdated('paused'), lines 330-341: with the client
\* connected it runs onPaused, whose first statement is client.getOneReg(32)
OnStateUpdatedPaused(stk) ==
  IF connected
  THEN stk \o <<Fr("onPaused", "pc", <<>>, FALSE, FALSE),
                Fr("rspCall", "start", GetOneRegPC, FALSE, TRUE)>>
  ELSE stk

\* onPaused, line 353 after getOneReg returned: parseRegs(...)[0], then getRegs()
OnPausedPC ==
  /\ ~Idle
  /\ Top.fn = "onPaused" /\ Top.pc = "pc"
  /\ UNCHANGED <<pendingData, missed, lastNotif, disorder, opsLeft, opName, sentOp, ownSent, console, respBuf>>
  /\ UNCHANGED peerVars
  /\ IF retval.t # "bytes" \/ ~Unhexable(retval.b) \/ RegCount(retval.b) = 0
     THEN Throw(stack, "parseRegs", uiLog)
     ELSE /\ stack' = SetTop(stack, [Top EXCEPT !.pc = "regs"])
                      \o <<Fr("rspCall", "start", GetRegsCmd, FALSE, TRUE)>>
          /\ UNCHANGED <<socket, connected, retval, result, uiLog>>

\* onPaused, lines 354-361 after getRegs returned: the table loop reads
\* self.regs[1] .. self.regs[31]
OnPausedRegs ==
  /\ ~Idle
  /\ Top.fn = "onPaused" /\ Top.pc = "regs"
  /\ UNCHANGED <<pendingData, missed, lastNotif, disorder, opsLeft, opName, sentOp, ownSent, console, respBuf>>
  /\ UNCHANGED peerVars
  /\ IF retval.t # "bytes" \/ ~Unhexable(retval.b) \/ RegCount(retval.b) < NumRegs
     THEN Throw(stack, "parseRegs", uiLog)
     ELSE /\ Return(Pop(stack), None)
          /\ UNCHANGED <<socket, connected, uiLog>>

\* ------------------------------------------------------------------ connect
\* line 40, _rspGetAck (lines 80-87): one byte, which must be '+'
ConnectHandshake ==
  /\ ~Idle
  /\ Top.fn = "connect" /\ Top.pc = "handshake"
  /\ rcvBuf # <<>> \/ ~peerOpen
  /\ UNCHANGED <<pendingData, missed, lastNotif, disorder, opsLeft, opName, sentOp, ownSent, console, uiLog, respBuf>>
  /\ UNCHANGED <<peerRest, peerOpen, reqQ, ackOwed, ackMode, notifSent, extraSent, inFlight>>
  /\ rcvBuf' = IF rcvBuf = <<>> THEN rcvBuf ELSE Tail(rcvBuf)
  /\ IF rcvBuf # <<>> /\ Head(rcvBuf) = Plus
     THEN /\ connected' = TRUE
          /\ stack' = SetTop(stack, [Top EXCEPT !.pc = "noack"])
                      \o <<Fr("rspCall", "start", QStartNoAckMode, TRUE, TRUE)>>
          /\ UNCHANGED <<socket, retval, result>>
     ELSE /\ socket' = "closed"
          /\ Return(Pop(stack), PyFalse)
          /\ UNCHANGED connected

\* line 48: the QStartNoAckMode call is back, its value unused
ConnectExtended ==
  /\ ~Idle
  /\ Top.fn = "connect" /\ Top.pc = "noack"
  /\ stack' = SetTop(stack, [Top EXCEPT !.pc = "extended"])
              \o <<Fr("rspCall", "start", ExtendedMode, FALSE, TRUE)>>
  /\ UNCHANGED <<socket, connected, pendingData, retval>>
  /\ UNCHANGED peerVars
  /\ UNCHANGED ghostVars

\* line 51: the '!' call is back, its value unused
ConnectQueryXml ==
  /\ ~Idle
  /\ Top.fn = "connect" /\ Top.pc = "extended"
  /\ stack' = SetTop(stack, [Top EXCEPT !.pc = "xml"])
              \o <<Fr("rspCall", "start", QueryTargetXml, FALSE, TRUE)>>
  /\ UNCHANGED <<socket, connected, pendingData, retval>>
  /\ UNCHANGED peerVars
  /\ UNCHANGED ghostVars

\* lines 51-55: [1:] of the answer (TypeError on None), then the two callbacks
ConnectNotify ==
  /\ ~Idle
  /\ Top.fn = "connect" /\ Top.pc = "xml"
  /\ UNCHANGED <<pendingData, missed, lastNotif, disorder, opsLeft, opName, sentOp, ownSent, console, respBuf>>
  /\ UNCHANGED peerVars
  /\ IF retval.t # "bytes"
     THEN Throw(stack, "TypeError", uiLog)
     ELSE /\ uiLog' = uiLog \o <<UiXml(StripFirst(retval.b), "connect"),
                                 UiState("paused", "connect")>>
          /\ stack' = OnStateUpdatedPaused(
                        SetTop(stack, [Top EXCEPT !.pc = "paused", !.ret = retval]))
          /\ UNCHANGED <<socket, connected, retval, result>>

\* line 56
ConnectDone ==
  /\ ~Idle
  /\ Top.fn = "connect" /\ Top.pc = "paused"
  /\ Return(Pop(stack), PyTrue)
  /\ UNCHANGED <<socket, connected, pendingData>>
  /\ UNCHANGED peerVars
  /\ UNCHANGED <<missed, lastNotif, disorder, opsLeft, opName, sentOp, ownSent, uiLog, console, respBuf>>


\* ------------------------------------------------------------------ rspCall
\* an rspCall whose connection test would sit inside its try block
InsideTry(stk) == SetTop(stk, [stk[Len(stk)] EXCEPT !.pc = "checked"])

\* lines 148-149: the raise comes before the try of line 153, so the handler of
\* this rspCall does not see it: the exception leaves with the frame gone
BeforeTry(stk) == Pop(stk)

\* lines 148-154: the connection test, outside the try block, then
\* _rspCheckUnexpectedData (lines 128-134) up to its call of _rspConsumePackets
RspCallEnter ==
  /\ ~Idle
  /\ Top.fn = "rspCall" /\ Top.pc = "start"
  /\ UNCHANGED <<pendingData, missed, lastNotif, disorder, opsLeft, opName, sentOp, ownSent, console, respBuf>>
  /\ UNCHANGED peerVars
  /\ IF ~connected
     THEN Throw(BeforeTry(stack), "NotConnected", uiLog)
     ELSE IF socket # "open"
     THEN Throw(SetTop(stack, [Top EXCEPT !.pc = "checked"]), "ValueError", uiLog)
     ELSE IF Readable
     THEN /\ stack' = SetTop(stack, [Top EXCEPT !.pc = "checked"])
                      \o <<Fr("consume", "read", <<>>, FALSE, FALSE)>>
          /\ UNCHANGED <<socket, connected, retval, result, uiLog>>
     ELSE /\ stack' = SetTop(stack, [Top EXCEPT !.pc = "send"])
          /\ UNCHANGED <<socket, connected, retval, result, uiLog>>

\* lines 133-134: what the drain returned is printed, never delivered
RspCallUnexpected ==
  /\ ~Idle
  /\ Top.fn = "rspCall" /\ Top.pc = "checked"
  /\ console' = IF retval.t = "bytes"
                THEN Append(console, Line("Unexpected", retval.b)) ELSE console
  /\ stack' = SetTop(stack, [Top EXCEPT !.pc = "send"])
  /\ UNCHANGED <<socket, connected, pendingData, retval>>
  /\ UNCHANGED peerVars
  /\ UNCHANGED <<missed, lastNotif, disorder, opsLeft, opName, result, sentOp, ownSent, uiLog, respBuf>>

\* where rspCall goes once the request is out and acknowledged (lines 165-169)
AfterRequest(stk, f) ==
  IF f.resp
  THEN /\ stack' = SetTop(stk, [f EXCEPT !.pc = "recv"])
                   \o <<Fr("consume", "read", <<>>, FALSE, FALSE)>>
       /\ UNCHANGED <<retval, result>>
  ELSE Return(Pop(stk), PyTrue)

\* an observer callback that calls back into the client is running
InCallback == \E i \in DOMAIN stack : stack[i].fn = "onPaused"

\* lines 155-163: the four sendall calls; the target receives the request
RspCallSend ==
  /\ ~Idle
  /\ Top.fn = "rspCall" /\ Top.pc = "send"
  /\ UNCHANGED <<pendingData, missed, lastNotif, disorder, opsLeft, opName, console, respBuf>>
  /\ UNCHANGED <<rcvBuf, peerRest, peerOpen, ackMode, notifSent, extraSent, inFlight>>
  /\ IF socket # "open"
     THEN /\ Throw(stack, "OSError", uiLog)
          /\ UNCHANGED <<sentOp, ownSent, reqQ, ackOwed>>
     ELSE /\ sentOp' = sentOp \o Encode(RspEscape(Top.data))
          /\ ownSent' = IF InCallback THEN ownSent
                        ELSE ownSent \o Encode(RspEscape(Top.data))
          /\ reqQ' = IF peerOpen THEN Append(reqQ, Top.data) ELSE reqQ
          /\ ackOwed' = IF peerOpen /\ ackMode THEN ackOwed + 1 ELSE ackOwed
          /\ UNCHANGED <<socket, connected, uiLog>>
          /\ IF Top.ack
             THEN /\ stack' = SetTop(stack, [Top EXCEPT !.pc = "getack"])
                  /\ UNCHANGED <<retval, result>>
             ELSE AfterRequest(stack, Top)

\* sendall on a stream the target has closed fails (broken pipe, reset)
RspCallSendFail ==
  /\ ~Idle
  /\ Top.fn = "rspCall" /\ Top.pc = "send"
  /\ socket = "open" /\ ~peerOpen
  /\ Throw(stack, "BrokenPipe", uiLog)
  /\ UNCHANGED <<pendingData, missed, lastNotif, disorder, opsLeft, opName, sentOp, ownSent, console, respBuf>>
  /\ UNCHANGED peerVars

\* line 166: _rspGetAck reads one byte and rspCall drops its verdict
RspCallGetAck ==
  /\ ~Idle
  /\ Top.fn = "rspCall" /\ Top.pc = "getack"
  /\ UNCHANGED <<pendingData, missed, lastNotif, disorder, opsLeft, opName, sentOp, ownSent, console, respBuf>>
  /\ UNCHANGED <<peerRest, peerOpen, reqQ, ackOwed, ackMode, notifSent, extraSent, inFlight>>
  /\ IF socket # "open"
     THEN /\ Throw(stack, "OSError", uiLog)
          /\ UNCHANGED rcvBuf
     ELSE /\ rcvBuf # <<>> \/ ~peerOpen
          /\ rcvBuf' = IF rcvBuf = <<>> THEN rcvBuf ELSE Tail(rcvBuf)
          /\ AfterRequest(stack, Top)
          /\ UNCHANGED <<socket, connected, uiLog>>

\* _rspRecvPacket, lines 136-141: loop until _rspConsumePackets yields a packet
RspCallRecv ==
  /\ ~Idle
  /\ Top.fn = "rspCall" /\ Top.pc = "recv"
  /\ IF retval.t = "bytes"
     THEN Return(Pop(stack), [retval EXCEPT !.b = RspUnescape(retval.b)])
     ELSE /\ stack' = stack \o <<Fr("consume", "read", <<>>, FALSE, FALSE)>>
          /\ UNCHANGED <<retval, result>>
  /\ UNCHANGED <<socket, connected, pendingData>>
  /\ UNCHANGED peerVars
  /\ UNCHANGED <<missed, lastNotif, disorder, opsLeft, opName, sentOp, ownSent, uiLog, console, respBuf>>


\* ------------------------------------------------------ _rspConsumePackets
Min(a, b) == IF a < b THEN a ELSE b

\* what the running _rspConsumePackets was called for: the receive loop of
\* _rspRecvPacket ("recvloop") or _rspCheckUnexpectedData ("drain")
ConsumeFor == IF stack[Len(stack) - 1].pc = "recv" THEN "recvloop" ELSE "drain"

\* the top-level rspCall itself is in its receive loop
OwnResponseWait ==
  Len(stack) = 2 /\ stack[1].fn = "rspCall" /\ stack[1].pc = "recv"

\* lines 92-100: one round of the receive loop
ConsumeRecv ==
  /\ ~Idle
  /\ Top.fn = "consume" /\ Top.pc = "read"
  /\ UNCHANGED <<missed, lastNotif, disorder, opsLeft, opName, sentOp, ownSent, console>>
  /\ UNCHANGED <<peerRest, peerOpen, reqQ, ackOwed, ackMode, notifSent, extraSent, inFlight>>
  /\ IF socket # "open"
     THEN /\ Throw(stack, "OSError", uiLog)
          /\ UNCHANGED <<pendingData, rcvBuf, respBuf>>
     ELSE IF rcvBuf # <<>>
     THEN LET n == Min(Len(rcvBuf), RecvMax)
              pd == pendingData \o SubSeq(rcvBuf, 1, n)
          IN /\ rcvBuf' = SubSeq(rcvBuf, n + 1, Len(rcvBuf))
             /\ pendingData' = pd
             /\ IF Len(pd) < 3
                THEN /\ Throw(stack, "IndexError", uiLog)
                     /\ UNCHANGED respBuf
                ELSE /\ stack' = IF FrameComplete(pd)
                                 THEN SetTop(stack, [Top EXCEPT !.pc = "parse"])
                                 ELSE stack
                     /\ respBuf' = IF FrameComplete(pd) /\ OwnResponseWait
                                      /\ respBuf = <<>>
                                   THEN pd ELSE respBuf
                     /\ UNCHANGED <<socket, connected, retval, result, uiLog>>
     ELSE /\ ~peerOpen
          /\ connected' = FALSE
          /\ socket' = "closed"
          /\ uiLog' = Append(uiLog, UiState("None", ConsumeFor))
          /\ Return(Pop(stack), None)
          /\ UNCHANGED <<pendingData, rcvBuf, respBuf>>

\* lines 101-125: one round of the parsing loop.  sent is what the target
\* sent as the frame this '#' ends (0: a response, else the notification's
\* number).
ConsumeParse ==
  /\ ~Idle
  /\ Top.fn = "consume" /\ Top.pc = "parse"
  /\ UNCHANGED <<opsLeft, opName, sentOp, ownSent, respBuf>>
  /\ UNCHANGED <<rcvBuf, peerRest, peerOpen, reqQ, ackOwed, ackMode, notifSent, extraSent>>
  /\ IF Find(pendingData, Hash) = 0
     THEN /\ Return(Pop(stack), Top.ret)
          /\ UNCHANGED <<socket, connected, pendingData, inFlight, missed,
                         lastNotif, disorder, uiLog, console>>
     ELSE LET raw == SplitRaw(pendingData)
              pkt == StripDollar(raw)
              sent == IF inFlight = <<>> THEN 0 ELSE Head(inFlight)
              Dispatched == /\ lastNotif' = IF sent > 0 THEN sent ELSE lastNotif
                            /\ disorder' = (disorder \/ (sent > 0 /\ sent < lastNotif))
                            /\ UNCHANGED missed
              Dropped == /\ missed' = (missed \/ sent > 0)
                         /\ UNCHANGED <<lastNotif, disorder>>
          IN /\ pendingData' = SplitRest(pendingData)
             /\ inFlight' = IF inFlight = <<>> THEN inFlight ELSE Tail(inFlight)
             /\ IF Find(raw, Dollar) = 0
                THEN /\ console' = Append(console, Line("Malformed", raw))
                     /\ Dropped
                     /\ UNCHANGED <<socket, connected, stack, retval, result, uiLog>>
                ELSE IF Classify(pkt) = "trap"
                THEN /\ console' = Append(console, Line("Trap", pkt))
                     /\ uiLog' = Append(uiLog, UiState("paused", "consume"))
                     /\ Dispatched
                     /\ stack' = OnStateUpdatedPaused(stack)
                     /\ UNCHANGED <<socket, connected, retval, result>>
                ELSE IF Classify(pkt) = "log"
                THEN IF Unhexable(Tail(pkt))
                     THEN /\ console' = Append(console, Line("Log", pkt))
                          /\ Dispatched
                          /\ UNCHANGED <<socket, connected, stack, retval, result, uiLog>>
                     ELSE /\ Throw(stack, "binascii.Error", uiLog)
                          /\ Dropped
                          /\ UNCHANGED console
                ELSE /\ console' = IF Top.ret.t = "bytes"
                                   THEN Append(console, Line("Ignored", Top.ret.b))
                                   ELSE console
                     /\ Dropped
                     /\ stack' = SetTop(stack,
                          [Top EXCEPT !.ret = BytesAt(NextRet(Top.ret, pkt),
                                                      IF missed' THEN 1 ELSE 0),
                                      !.seen = Append(Top.seen, pkt),
                                      !.ign = IF Top.ret.t = "bytes"
                                              THEN Append(Top.ign, Top.ret.b)
                                              ELSE Top.ign])
                     /\ UNCHANGED <<socket, connected, retval, result, uiLog>>

\* a blocking recv (the handshake's, the acknowledgment's, the receive loop's)
\* that gets no byte within the 10 seconds of line 39 raises socket.timeout
RecvTimeout ==
  /\ ~Idle
  /\ \/ Top.fn = "connect" /\ Top.pc = "handshake"
     \/ Top.fn = "rspCall" /\ Top.pc = "getack"
     \/ Top.fn = "consume" /\ Top.pc = "read"
  /\ socket = "open" /\ rcvBuf = <<>> /\ peerOpen
  /\ Throw(stack, "timeout", uiLog)
  /\ UNCHANGED <<pendingData, missed, lastNotif, disorder, opsLeft, opName, sentOp, ownSent, console, respBuf>>
  /\ UNCHANGED peerVars

\* poll, lines 270-274: _rspCheckUnexpectedData prints what the drain returned
PollDone ==
  /\ ~Idle
  /\ Top.fn = "poll" /\ Top.pc = "drained"
  /\ console' = IF retval.t = "bytes"
                THEN Append(console, Line("Unexpected", retval.b)) ELSE console
  /\ Return(Pop(stack), PyTrue)
  /\ UNCHANGED <<socket, connected, pendingData>>
  /\ UNCHANGED peerVars
  /\ UNCHANGED <<missed, lastNotif, disorder, opsLeft, opName, sentOp, ownSent, uiLog, respBuf>>

\* ------------------------------------------------ the target and the network
\* The client looks at the socket only in select, recv and sendall.  What the
\* target does between two such looks is the same to the client as if it
\* happened just before the second, so the target moves only when the client's
\* next step is one of them.
AtRecv ==
  /\ ~Idle
  /\ \/ Top.fn = "connect" /\ Top.pc = "handshake"
     \/ Top.fn = "rspCall" /\ Top.pc \in {"start", "getack"}
     \/ Top.fn = "poll" /\ Top.pc = "start"
     \/ Top.fn = "consume" /\ Top.pc = "read"

AtSend == ~Idle /\ Top.fn = "rspCall" /\ Top.pc = "send"

PeerActive == socket = "open" /\ peerOpen /\ AtRecv

\* the target writes frame f; k of its bytes arrive at once
PeerWrites(f, k, id) ==
  /\ PeerActive
  /\ peerRest = <<>>
  /\ rcvBuf' = rcvBuf \o SubSeq(f, 1, k)
  /\ peerRest' = SubSeq(f, k + 1, Len(f))
  /\ inFlight' = Append(inFlight, id)
  /\ UNCHANGED clientVars
  /\ UNCHANGED ghostVars

PeerAck ==
  /\ PeerActive
  /\ peerRest = <<>>
  /\ ackOwed > 0
  /\ ackOwed' = ackOwed - 1
  /\ rcvBuf' = Append(rcvBuf, Plus)
  /\ UNCHANGED <<peerRest, peerOpen, reqQ, ackMode, notifSent, extraSent, inFlight>>
  /\ UNCHANGED clientVars
  /\ UNCHANGED ghostVars

\* the answer to the oldest request; "OK" to QStartNoAckMode ends the acknowledgments
PeerReply(f, k) ==
  /\ reqQ # <<>>
  /\ ackOwed = 0
  /\ PeerWrites(f, k, 0)
  /\ reqQ' = Tail(reqQ)
  /\ ackMode' = IF Head(reqQ) = QStartNoAckMode /\ f = OkFrame THEN FALSE ELSE ackMode
  /\ UNCHANGED <<peerOpen, ackOwed, notifSent, extraSent>>

\* a stop or log frame, sent when the target pleases
PeerNotify(f, k) ==
  /\ notifSent + extraSent < MaxUnsolicited
  /\ PeerWrites(f, k, notifSent + 1)
  /\ notifSent' = notifSent + 1
  /\ UNCHANGED <<peerOpen, reqQ, ackOwed, ackMode, extraSent>>

\* a response frame nobody asked for
PeerExtra(f, k) ==
  /\ notifSent + extraSent < MaxUnsolicited
  /\ PeerWrites(f, k, 0)
  /\ extraSent' = extraSent + 1
  /\ UNCHANGED <<peerOpen, reqQ, ackOwed, ackMode, notifSent>>

\* the rest of a frame that was cut arrives
PeerFlush ==
  /\ PeerActive
  /\ peerRest # <<>>
  /\ rcvBuf' = rcvBuf \o peerRest
  /\ peerRest' = <<>>
  /\ UNCHANGED <<peerOpen, reqQ, ackOwed, ackMode, notifSent, extraSent, inFlight>>
  /\ UNCHANGED clientVars
  /\ UNCHANGED ghostVars

\* the target closes the stream; what it had not yet sent is lost
PeerClose ==
  /\ socket = "open" /\ peerOpen
  /\ AtRecv \/ AtSend
  /\ peerOpen' = FALSE
  /\ peerRest' = <<>>
  /\ UNCHANGED <<rcvBuf, reqQ, ackOwed, ackMode, notifSent, extraSent, inFlight>>
  /\ UNCHANGED clientVars
  /\ UNCHANGED ghostVars

Next ==
  \/ DoConnect
  \/ \E wr \in BOOLEAN : DoRspCall(wr)
  \/ DoPoll
  \/ DoDisconnect
  \/ DoPause
  \/ ConnectHandshake
  \/ ConnectExtended
  \/ ConnectQueryXml
  \/ ConnectNotify
  \/ ConnectDone
  \/ OnPausedPC
  \/ OnPausedRegs
  \/ RspCallEnter
  \/ RspCallUnexpected
  \/ RspCallSend
  \/ RspCallSendFail
  \/ RspCallGetAck
  \/ RspCallRecv
  \/ ConsumeRecv
  \/ ConsumeParse
  \/ RecvTimeout
  \/ PollSelect
  \/ PollDone
  \/ PeerAck
  \/ \E f \in ReplyFrames : \E k \in CutPoints(Len(f)) : PeerReply(f, k)
  \/ \E f \in NotifFrames : \E k \in CutPoints(Len(f)) : PeerNotify(f, k)
  \/ \E f \in ExtraFrames : \E k \in CutPoints(Len(f)) : PeerExtra(f, k)
  \/ PeerFlush
  \/ PeerClose

Spec == Init /\ [][Next]_vars

\* ------------------------------------------------------- typed operations
\* the arguments the user interface passes: read(0x1000, 4) and a software
\* breakpoint of size 4 at 0x2000
ReadArgs == {<<4096, 4>>}
BpArgs == {<<"soft", 8192, 4>>}

\* read, lines 177-178: the 'm' request
DoRead(addr, size) ==
  /\ StartOp("read")
  /\ stack' = <<Fr("read", "call", <<>>, FALSE, FALSE),
                Fr("rspCall", "start", ReadCmd(addr, size), FALSE, TRUE)>>
  /\ result' = NoResult
  /\ uiLog' = <<>>
  /\ UNCHANGED <<socket, connected, pendingData, retval, missed, lastNotif, disorder>>
  /\ UNCHANGED peerVars

\* read, line 179: unhexlify(ret), which raises on None and on what is not hex
ReadDone ==
  /\ ~Idle
  /\ Top.fn = "read" /\ Top.pc = "call"
  /\ UNCHANGED <<pendingData, missed, lastNotif, disorder, opsLeft, opName, sentOp, ownSent, console, respBuf>>
  /\ UNCHANGED peerVars
  /\ IF retval.t = "bytes" /\ Unhexable(retval.b)
     THEN /\ Return(Pop(stack), BytesAt(Unhexlify(retval.b), retval.at))
          /\ UNCHANGED <<socket, connected, uiLog>>
     ELSE Throw(stack, "unhexlify", uiLog)

\* bpadd, lines 285-287: return self.rspCall(b'Z...')
DoBpAdd(type, addr, size) ==
  /\ StartOp("bpadd")
  /\ stack' = <<Fr("rspCall", "start", BpCmd(90, type, addr, size), FALSE, TRUE)>>
  /\ result' = NoResult
  /\ uiLog' = <<>>
  /\ UNCHANGED <<socket, connected, pendingData, retval, missed, lastNotif, disorder>>
  /\ UNCHANGED peerVars

\* bpdel, lines 289-291: return self.rspCall(b'z...')
DoBpDel(type, addr, size) ==
  /\ StartOp("bpdel")
  /\ stack' = <<Fr("rspCall", "start", BpCmd(122, type, addr, size), FALSE, TRUE)>>
  /\ result' = NoResult
  /\ uiLog' = <<>>
  /\ UNCHANGED <<socket, connected, pendingData, retval, missed, lastNotif, disorder>>
  /\ UNCHANGED peerVars

\* "X#": a request whose payload holds one of the bytes the protocol escapes
BinaryCmd == <<88, Hash>>

\* rspCall, lines 144-151, called with a payload that holds a '#'
DoRspCallBinary ==
  /\ StartOp("rspCall")
  /\ stack' = <<Fr("rspCall", "start", BinaryCmd, FALSE, TRUE)>>
  /\ result' = NoResult
  /\ uiLog' = <<>>
  /\ UNCHANGED <<socket, connected, pendingData, retval, missed, lastNotif, disorder>>
  /\ UNCHANGED peerVars

\* go, line 242: rspCall(b'vCont;c', waitForResp=False)
DoGo ==
  /\ StartOp("go")
  /\ stack' = <<Fr("go", "call", <<>>, FALSE, FALSE),
                Fr("rspCall", "start", GoCmd, FALSE, FALSE)>>
  /\ result' = NoResult
  /\ uiLog' = <<>>
  /\ UNCHANGED <<socket, connected, pendingData, retval, missed, lastNotif, disorder>>
  /\ UNCHANGED peerVars

\* go, lines 243-244: whatever rspCall returned, onStateUpdated('running')
GoDone ==
  /\ ~Idle
  /\ Top.fn = "go" /\ Top.pc = "call"
  /\ uiLog' = Append(uiLog, UiState("running", "go"))
  /\ Return(Pop(stack), PyTrue)
  /\ UNCHANGED <<socket, connected, pendingData>>
  /\ UNCHANGED peerVars
  /\ UNCHANGED <<missed, lastNotif, disorder, opsLeft, opName, sentOp, ownSent, console, respBuf>>

\* reset, line 260: monitorCmd(b'reset halt')
DoReset ==
  /\ StartOp("reset")
  /\ stack' = <<Fr("reset", "call", <<>>, FALSE, FALSE),
                Fr("rspCall", "start", MonitorCmd(ResetHalt), FALSE, TRUE)>>
  /\ result' = NoResult
  /\ uiLog' = <<>>
  /\ UNCHANGED <<socket, connected, pendingData, retval, missed, lastNotif, disorder>>
  /\ UNCHANGED peerVars

\* reset, lines 261-262: whatever monitorCmd returned, onStateUpdated('paused')
ResetNotify ==
  /\ ~Idle
  /\ Top.fn = "reset" /\ Top.pc = "call"
  /\ uiLog' = Append(uiLog, UiState("paused", "reset"))
  /\ stack' = OnStateUpdatedPaused(SetTop(stack, [Top EXCEPT !.pc = "paused"]))
  /\ UNCHANGED <<socket, connected, pendingData, retval>>
  /\ UNCHANGED peerVars
  /\ UNCHANGED <<missed, lastNotif, disorder, opsLeft, opName, result, sentOp, ownSent, console, respBuf>>

\* reset falls off its end
ResetDone ==
  /\ ~Idle
  /\ Top.fn = "reset" /\ Top.pc = "paused"
  /\ Return(Pop(stack), None)
  /\ UNCHANGED <<socket, connected, pendingData>>
  /\ UNCHANGED peerVars
  /\ UNCHANGED <<missed, lastNotif, disorder, opsLeft, opName, sentOp, ownSent, uiLog, console, respBuf>>

\* the client driven through its typed operations
NextOps ==
  \/ DoConnect
  \/ \E a \in ReadArgs : DoRead(a[1], a[2])
  \/ ReadDone
  \/ \E a \in BpArgs : DoBpAdd(a[1], a[2], a[3])
  \/ \E a \in BpArgs : DoBpDel(a[1], a[2], a[3])
  \/ DoRspCallBinary
  \/ DoGo
  \/ GoDone
  \/ DoReset
  \/ ResetNotify
  \/ ResetDone
  \/ ConnectHandshake
  \/ ConnectExtended
  \/ ConnectQueryXml
  \/ ConnectNotify
  \/ ConnectDone
  \/ OnPausedPC
  \/ OnPausedRegs
  \/ RspCallEnter
  \/ RspCallUnexpected
  \/ RspCallSend
  \/ RspCallSendFail
  \/ RspCallGetAck
  \/ RspCallRecv
  \/ ConsumeRecv
  \/ ConsumeParse
  \/ RecvTimeout
  \/ PeerAck
  \/ \E f \in ReplyFrames : \E k \in CutPoints(Len(f)) : PeerReply(f, k)
  \/ \E f \in NotifFrames : \E k \in CutPoints(Len(f)) : PeerNotify(f, k)
  \/ \E f \in ExtraFrames : \E k \in CutPoints(Len(f)) : PeerExtra(f, k)
  \/ PeerFlush
  \/ PeerClose

SpecOps == Init /\ [][NextOps]_vars

\* ---------------------------------------------------------------- properties
NoneCount(log) == Cardinality({i \in DOMAIN log : log[i].kind = "None"})
PausedCount(log) == Cardinality({i \in DOMAIN log : log[i].kind = "paused"})
Payload(f) == SubSeq(f, 2, Len(f) - 3)
FromDollar(s) == IF Find(s, Dollar) = 0 THEN <<>> ELSE SubSeq(s, Find(s, Dollar), Len(s))
Finished(name) == Idle /\ opName = name /\ result.kind # "none"

\* the top-level rspCall read, while waiting for its response, a buffer whose
\* frames are a stop notification and then the response frame f
StopThenResponse(f) ==
  /\ Finished("rspCall")
  /\ FromDollar(respBuf) = Encode(StopFrame) \o f
  /\ Find(respBuf, Hash) > Find(respBuf, Dollar)

\* C1: a top-level rspCall that read a stop notification followed by a response
\* frame, from a target that answered every request in full, sent no frame
\* nobody asked for and kept the stream open, returns that frame's payload, has the observer
\* told 'paused' exactly once and leaves the session connected.
C1_StopThenResponseReturned ==
  \A f \in ReplyFrames :
    (StopThenResponse(f) /\ reqQ = <<>> /\ peerRest = <<>> /\ peerOpen
       /\ extraSent = 0)
      => /\ result.kind = "return"
         /\ result.val.t = "bytes"
         /\ result.val.b = Payload(f)
         /\ PausedCount(uiLog) = 1
         /\ connected

\* C2: a top-level rspCall whose receive loop read the end of the stream ends
\* disconnected, with the socket closed and onStateUpdated(None) called exactly
\* once.
C2_PeerCloseNotifiedOnce ==
  (Finished("rspCall") /\ uiLog # <<>> /\ uiLog[1] = UiState("None", "recvloop"))
    => /\ ~connected
       /\ socket = "closed"
       /\ NoneCount(uiLog) = 1

\* C3 as stated: a pass of _rspConsumePackets that parsed several
\* non-notification packets holds the first of them as its return value.
C3_FirstPacketReturned ==
  \A i \in DOMAIN stack :
    (stack[i].fn = "consume" /\ Len(stack[i].seen) > 1)
      => stack[i].ret.b = stack[i].seen[1]

\* a pass of _rspConsumePackets has parsed everything and is about to return
PassEnds ==
  /\ ~Idle
  /\ Top.fn = "consume" /\ Top.pc = "parse"
  /\ Find(pendingData, Hash) = 0

\* C3 amended: a pass of _rspConsumePackets that parsed one or more
\* non-notification packets hands its caller the last of them, and has printed
\* every earlier one, in order, as ignored.
C3_LastPacketReturned ==
  [][(PassEnds /\ Top.seen # <<>>)
       => /\ stack' = Pop(stack)
          /\ retval'.t = "bytes"
          /\ retval'.b = Top.seen[Len(Top.seen)]
          /\ Top.ign = SubSeq(Top.seen, 1, Len(Top.seen) - 1)]_vars

\* a pass ends after parsing two different non-notification packets
C3_TwoPacketsInOnePass ==
  /\ PassEnds
  /\ Len(Top.seen) = 2
  /\ Top.seen[1] # Top.seen[2]

AwaitsResponse(f) == f.fn = "rspCall" /\ f.pc \in {"getack", "recv"}

\* C4: no request is on the wire while an earlier rspCall still awaits its
\* response: no two rspCall activations have both sent their request and not
\* yet returned.
C4_OneCallInFlight ==
  \A i, j \in DOMAIN stack :
    (i < j /\ AwaitsResponse(stack[i])) => ~AwaitsResponse(stack[j])

\* C5: from the start of a poll() to its end no byte is written to the socket.
C5_PollWritesNothing ==
  opName = "poll" => sentOp = <<>>

\* C6: poll() never waits in recv: its _rspConsumePackets is never at recv on an
\* open stream with no byte available.
C6_PollNeverBlocks ==
  ~ /\ opName = "poll"
    /\ Len(stack) = 2
    /\ Top.fn = "consume" /\ Top.pc = "read"
    /\ socket = "open" /\ peerOpen /\ rcvBuf = <<>>

\* C7: a top-level rspCall during which the session was torn down ends by
\* raising, and its request went out at most once.
C7_FailureRaises ==
  (Finished("rspCall") /\ NoneCount(uiLog) > 0)
    => /\ result.kind = "raise"
       /\ Len(sentOp) <= Len(Encode(UserCmd))

\* C8: a connect() that did not return True has closed its socket and left the
\* session disconnected.
C8_FailedConnectCleansUp ==
  (Finished("connect") /\ result # Returned(PyTrue))
    => /\ socket = "closed"
       /\ ~connected

\* a value rspCall handed to its caller
Delivered ==
  IF Idle
  THEN IF opName = "rspCall" THEN result.val ELSE None
  ELSE IF Top.fn \in {"connect", "onPaused"} THEN retval ELSE None

\* C9: notifications are dispatched in the order their frames arrived, and no
\* response is handed to a caller while a notification whose frame arrived
\* before it was not dispatched.
C9_NotificationsInOrder ==
  /\ ~disorder
  /\ Delivered.at = 0

SetupRequests ==
  Encode(QStartNoAckMode) \o Encode(ExtendedMode) \o Encode(QueryTargetXml)

\* the observer calls made by connect itself
ConnectCalls ==
  LET ByConnect(e) == e.by = "connect" IN SelectSeq(uiLog, ByConnect)

C11_NotConnectedRaises ==
  [][(~Idle /\ Top.fn = "rspCall" /\ Top.pc = "start" /\ ~connected
        /\ stack' # stack)
       => /\ stack' = <<>>
          /\ result' = Raised("NotConnected")
          /\ UNCHANGED <<sentOp, uiLog, socket, connected, pendingData, rcvBuf>>]_vars

\* a top-level rspCall on a disconnected session has ended
C11_CalledWhileDisconnected ==
  /\ Finished("rspCall")
  /\ result = Raised("NotConnected")
  /\ ~connected

\* C12: a disconnect() on a session that is already disconnected, whether it
\* was disconnected before or never connected, returns without error and leaves
\* the session disconnected.
C12_DisconnectIdempotent ==
  Finished("disconnect") => (result.kind = "return" /\ ~connected)

\* the step that runs pause()
PauseStep == opsLeft' # opsLeft /\ opName' = "pause"

LowerHex == <<48, 49, 50, 51, 52, 53, 54, 55, 56, 57, 97, 98, 99, 100, 101, 102>>

\* '$' payload '#' and the payload's byte sum mod 256 as two lowercase digits
FrameOf(p) ==
  LET sum == SumBytes(p, 1, Len(p)) % 256
  IN <<36>> \o p \o <<35>> \o <<LowerHex[(sum \div 16) + 1], LowerHex[(sum % 16) + 1]>>

\* "$m1000,4#8e", "$Z0,2000,4#d8" and "$z0,2000,4#f8"
ReadFrameText == <<36, 109, 49, 48, 48, 48, 44, 52, 35, 56, 101>>
BpAddFrameText == <<36, 90, 48, 44, 50, 48, 48, 48, 44, 52, 35, 100, 56>>
BpDelFrameText == <<36, 122, 48, 44, 50, 48, 48, 48, 44, 52, 35, 102, 56>>

\* C14: every request rspCall writes is '$' + payload + '#' + the payload's
\* byte sum mod 256 as two lowercase hex digits; read(0x1000, 4) writes
\* "$m1000,4#8e", and bpadd and bpdel for a software breakpoint of size 4 at
\* 0x2000 write "$Z0,2000,4#d8" and "$z0,2000,4#f8".
C14_RequestFraming ==
  /\ [][(~Idle /\ Top.fn = "rspCall" /\ sentOp' # sentOp)
          => sentOp' = sentOp \o FrameOf(Top.data)]_vars
  /\ [](opName = "read" => ownSent \in {<<>>, ReadFrameText})
  /\ [](opName = "bpadd" => ownSent \in {<<>>, BpAddFrameText})
  /\ [](opName = "bpdel" => ownSent \in {<<>>, BpDelFrameText})

\* read(0x1000, 4) has written its request and ended
C14_ReadRequestWritten ==
  /\ Finished("read")
  /\ ownSent = ReadFrameText

\* C19: within an operation, once the observer was told None (disconnected) it
\* is told neither 'running' nor 'paused' afterwards; so whenever the session
\* is disconnected the state the observer holds is None.
C19_NoStateAfterNone ==
  \A i, j \in DOMAIN uiLog :
    (i < j /\ uiLog[i].kind = "None") => uiLog[j].kind \notin {"running", "paused"}

\* C15: a frame whose two digits are not its payload's checksum is rejected:
\* its payload is never handed to a caller as a response.
C15_CorruptFrameRejected ==
  Delivered.t = "bytes" => Delivered.b # Payload(CorruptFrame)

\* C17: a recv that brings bytes of well-formed frames, however the stream was
\* cut, raises no error and does not disconnect the session.
C17_SplitReadsHarmless ==
  [][(~Idle /\ Top.fn = "consume" /\ Top.pc = "read" /\ socket = "open"
        /\ connected /\ rcvBuf # <<>> /\ stack' # stack)
       => (connected' /\ socket' = "open")]_vars

\* C20: on a connection made by a later connect() every response handed to a
\* caller is a payload the target sent, whatever the earlier connection left in
\* _pendingData.
C20_StaleBufferHarmless ==
  (opName = "connect" /\ Delivered.t = "bytes")
    => Delivered.b \in {OkReply, RegsReply, Payload(CorruptFrame)}

\* ------------------------------------------------------------ readToFile
\* readToFile(0x1000, 2): the address and the number of bytes still to read
FileArgs == {<<4096, 2>>}
ChunkMax == 4096

\* what the target may answer a request with: the answers of ReplyFrames, no
\* payload at all, one
\* byte of memory in hex
EmptyFrame == Encode(<<>>)
ByteFrame == Encode(Hexlify(<<0>>))
FileReplyFrames == ReplyFrames \cup {EmptyFrame, ByteFrame}

\* readToFile, lines 197-198: the file is opened; data holds <<addr, size>>
DoReadToFile(addr, size) ==
  /\ StartOp("readToFile")
  /\ stack' = <<Fr("readToFile", "loop", <<addr, size>>, FALSE, FALSE)>>
  /\ result' = NoResult
  /\ uiLog' = <<>>
  /\ UNCHANGED <<socket, connected, pendingData, retval, missed, lastNotif, disorder>>
  /\ UNCHANGED peerVars

\* readToFile, lines 199-200 and 204: while size > 0 the next chunk is asked
\* for with self.read(addr, min(size, 4096)); sentOp and ownSent restart with
\* each request of the loop
ReadToFileLoop ==
  /\ ~Idle
  /\ Top.fn = "readToFile" /\ Top.pc = "loop"
  /\ UNCHANGED <<pendingData, missed, lastNotif, disorder, opsLeft, opName, console, respBuf>>
  /\ UNCHANGED peerVars
  /\ UNCHANGED <<socket, connected, uiLog>>
  /\ IF Top.data[2] > 0
     THEN /\ stack' = SetTop(stack, [Top EXCEPT !.pc = "write"])
                        \o <<Fr("read", "call", <<>>, FALSE, FALSE),
                             Fr("rspCall", "start",
                                ReadCmd(Top.data[1], Min(Top.data[2], ChunkMax)),
                                FALSE, TRUE)>>
          /\ sentOp' = <<>>
          /\ ownSent' = <<>>
          /\ UNCHANGED <<retval, result>>
     ELSE /\ Return(Pop(stack), PyTrue)
          /\ UNCHANGED <<sentOp, ownSent>>

\* readToFile, lines 201-203: f.write(data); addr += len(data); size -= len(data)
ReadToFileWrite ==
  /\ ~Idle
  /\ Top.fn = "readToFile" /\ Top.pc = "write"
  /\ stack' = SetTop(stack, [Top EXCEPT !.pc = "loop",
                                        !.data = <<Top.data[1] + Len(retval.b),
                                                   Top.data[2] - Len(retval.b)>>])
  /\ UNCHANGED <<socket, connected, pendingData, retval>>
  /\ UNCHANGED peerVars
  /\ UNCHANGED <<missed, lastNotif, disorder, opsLeft, opName, result, sentOp, ownSent, uiLog, console, respBuf>>

\* the client reading memory to a file from a target that only answers
NextFile ==
  \/ DoConnect
  \/ \E a \in FileArgs : DoReadToFile(a[1], a[2])
  \/ ReadToFileLoop
  \/ ReadToFileWrite
  \/ ReadDone
  \/ ConnectHandshake
  \/ ConnectExtended
  \/ ConnectQueryXml
  \/ ConnectNotify
  \/ ConnectDone
  \/ OnPausedPC
  \/ OnPausedRegs
  \/ RspCallEnter
  \/ RspCallUnexpected
  \/ RspCallSend
  \/ RspCallSendFail
  \/ RspCallGetAck
  \/ RspCallRecv
  \/ ConsumeRecv
  \/ ConsumeParse
  \/ RecvTimeout
  \/ PeerAck
  \/ \E f \in FileReplyFrames : \E k \in CutPoints(Len(f)) : PeerReply(f, k)
  \/ PeerFlush
  \/ PeerClose

\* every step that can be taken is taken in the end: the client runs, the
\* target answers or the 10 seconds of line 39 pass
SpecFile == Init /\ [][NextFile]_vars /\ WF_vars(NextFile)

XorByte(b) == IF (b \div 32) % 2 = 1 THEN b - 32 ELSE b + 32

RECURSIVE Escaped(_)
Escaped(p) ==
  IF p = <<>> THEN <<>>
  ELSE IF Head(p) \in {Dollar, Hash, 125}
       THEN <<125, XorByte(Head(p))>> \o Escaped(Tail(p))
       ELSE <<Head(p)>> \o Escaped(Tail(p))

\* C16: the frame rspCall writes carries its payload escaped: every '$', '#'
\* and '}' of the payload goes out as '}' followed by the byte XOR 0x20, framed
\* with the checksum of the escaped bytes.
C16_PayloadEscaped ==
  [][(~Idle /\ Top.fn = "rspCall" /\ Top.pc = "send" /\ sentOp' # sentOp)
       => sentOp' = sentOp \o <<Dollar>> \o Escaped(Top.data) \o <<Hash>>
                      \o Hex2(Checksum(Escaped(Top.data)))]_vars

\* C18: readToFile always comes to an end, whatever the target answers.
C18_ReadToFileTerminates ==
  (opName = "readToFile") ~> Idle

====
